---- MODULE Spec2Model ----
(***************************************************************************)
(* Model of src/webhook.py: the Stripe webhook handler (stripe_webhook)    *)
(* with its collaborators (record lookup, generate_pdf, upload_to_supabase,*)
(* send_resend_email) and the text sanitizer (sanitize_text).              *)
(*                                                                         *)
(* Text is a sequence of code points (naturals).                           *)
(***************************************************************************)
EXTENDS Integers, Sequences, FiniteSets, TLC

VARIABLES
    environ,    \* os.environ when the module is imported: name -> value or Unset
    leads,      \* the rows of the record store's table
    files,      \* the temporary directory: the name of each file -> [owner, data]
    bucket,     \* the storage bucket: the name of each object -> its data
    outbox,     \* the emails the mail transport accepted
    clock,      \* the UTC clock, in seconds
    ex,         \* per request: the position and locals of its stripe_webhook call
    sanText,    \* sanitizer harness: the input text
    sanOut,     \* sanitizer harness: sanitize_text(sanText)
    sanOut2,    \* sanitizer harness: sanitize_text(sanOut)
    sanStage,   \* harness position: "raw" | "once" | "twice" | "normalized" |
                \*                   "render" | "fallback" | "rendered"
    sanNorm,    \* sanitizer harness: normalize_spaces(sanText)
    pdfTodo,    \* render harness: the lines generate_pdf has not laid out yet
    pdfLine,    \* render harness: line, the argument of safe_multicell
    pdfCells,   \* render harness: the txt of each cell written for pdfLine
    pdfI        \* render harness: i, the index of the fallback loop

pdfVars == <<pdfTodo, pdfLine, pdfCells, pdfI>>
sanVars == <<sanText, sanOut, sanOut2, sanStage, sanNorm, pdfVars>>
appVars == <<environ, leads, files, bucket, outbox, clock, ex>>
vars == <<appVars, sanVars>>

----------------------------------------------------------------------------
(* Code points                                                             *)

TAB    == 9
LF     == 10
CR     == 13
SPACE  == 32
HYPHEN == 45
COLON  == 58
SLASH  == 47
UNDERSCORE == 95
LETTER_a == 97
LETTER_h == 104
LETTER_p == 112
LETTER_s == 115
LETTER_t == 116
DEL    == 127
NEL    == 133
NBSP   == 160
ENDASH == 8211
EMDASH == 8212
SOH    == 1

\* the characters Python's str.encode("latin1") can encode
Latin1Max == 255

\* the run length from which normalize_spaces softens a dash run,
\* and the size of the groups it writes
RunMin   == 10
GroupLen == 10

\* max_len of soften_long_tokens as sanitize_text calls it
TokenMax == 40

----------------------------------------------------------------------------
(* Text helpers                                                            *)

\* CTRL_RE: [\x00-\x08\x0B\x0C\x0E-\x1F]
CTRL_RE(c) == c \in (0..8) \cup {11, 12} \cup (14..31)

\* what the regex class \s matches in a str pattern (the code points up to
\* Latin1Max that Python counts as whitespace); \S is its complement
IsSpace(c) == c \in (9..13) \cup (28..32) \cup {NEL, NBSP}

\* the class [-–—_] of normalize_spaces
DashLike(c) == c \in {HYPHEN, ENDASH, EMDASH, UNDERSCORE}

IsLatin1(c) == c <= Latin1Max

strip_non_latin1(text) == SelectSeq(text, IsLatin1)

\* c repeated n times
Rep(c, n) == [i \in 1..n |-> c]

\* number of consecutive positions from i on that hold the character s[i]
SameRun(s, i) ==
    LET e == CHOOSE j \in (i + 1)..(Len(s) + 1) :
                 /\ (j > Len(s) \/ s[j] # s[i])
                 /\ \A k \in (i + 1)..(j - 1) : s[k] = s[i]
    IN  e - i

\* " ".join([group] * k)
RECURSIVE JoinCopies(_, _)
JoinCopies(group, k) ==
    IF k <= 1 THEN group ELSE group \o <<SPACE>> \o JoinCopies(group, k - 1)

\* re.sub(r"([-–—_])\1{9,}", lambda m: " ".join([m.group(1)*10] * (len(m.group(0)) // 10 + 1)), s)
\* scanning from position i: a match is a whole run of one dash-like character
RECURSIVE SoftenRuns(_, _)
SoftenRuns(s, i) ==
    IF i > Len(s) THEN <<>>
    ELSE LET n == SameRun(s, i) IN
         IF DashLike(s[i]) /\ n >= RunMin
         THEN JoinCopies(Rep(s[i], GroupLen), (n \div GroupLen) + 1) \o SoftenRuns(s, i + n)
         ELSE SubSeq(s, i, i + n - 1) \o SoftenRuns(s, i + n)

normalize_spaces(s) ==
    LET s1 == [i \in 1..Len(s) |-> IF s[i] \in {NBSP, TAB} THEN SPACE ELSE s[i]]
        s2 == SelectSeq(s1, LAMBDA c : ~CTRL_RE(c))
    IN  SoftenRuns(s2, 1)

\* " ".join(w[i:i + max_len] for i in range(0, len(w), max_len))
RECURSIVE chunker(_, _)
chunker(w, max_len) ==
    IF Len(w) <= max_len THEN w
    ELSE SubSeq(w, 1, max_len) \o <<SPACE>> \o chunker(SubSeq(w, max_len + 1, Len(w)), max_len)

\* number of consecutive non-whitespace characters from position i on
NonSpaceRun(s, i) ==
    LET e == CHOOSE j \in i..(Len(s) + 1) :
                 /\ (j > Len(s) \/ IsSpace(s[j]))
                 /\ \A k \in i..(j - 1) : ~IsSpace(s[k])
    IN  e - i

\* number of consecutive whitespace characters from position i on
SpaceRun(s, i) ==
    LET e == CHOOSE j \in i..(Len(s) + 1) :
                 /\ (j > Len(s) \/ ~IsSpace(s[j]))
                 /\ \A k \in i..(j - 1) : IsSpace(s[k])
    IN  e - i

HasAt(s, i, w) == i + Len(w) - 1 <= Len(s) /\ SubSeq(s, i, i + Len(w) - 1) = w

HTTP  == <<LETTER_h, LETTER_t, LETTER_t, LETTER_p, COLON, SLASH, SLASH>>
HTTPS == <<LETTER_h, LETTER_t, LETTER_t, LETTER_p, LETTER_s, COLON, SLASH, SLASH>>

\* length of the match of https?://\S+ at position i, 0 when there is none
UrlMatch(s, i) ==
    LET n == NonSpaceRun(s, i) IN
    IF HasAt(s, i, HTTPS) /\ n > Len(HTTPS) THEN n
    ELSE IF HasAt(s, i, HTTP) /\ n > Len(HTTP) THEN n
    ELSE 0

\* re.sub(r"(https?://\S+)", lambda m: chunker(m.group(0)), s), from position i:
\* within a run of non-whitespace the leftmost match runs to the end of the run
RECURSIVE BreakUrls(_, _, _)
BreakUrls(s, i, max_len) ==
    IF i > Len(s) THEN <<>>
    ELSE LET n    == NonSpaceRun(s, i)
             hits == {j \in i..(i + n - 1) : UrlMatch(s, j) > 0}
             j    == CHOOSE k \in hits : \A h \in hits : k <= h
         IN
         IF n = 0
         THEN SubSeq(s, i, i + SpaceRun(s, i) - 1) \o BreakUrls(s, i + SpaceRun(s, i), max_len)
         ELSE IF hits = {} THEN SubSeq(s, i, i + n - 1) \o BreakUrls(s, i + n, max_len)
         ELSE SubSeq(s, i, j - 1) \o chunker(SubSeq(s, j, i + n - 1), max_len)
                  \o BreakUrls(s, i + n, max_len)

\* re.sub(r"\S{max_len,}", lambda m: chunker(m.group(0)), s), from position i
RECURSIVE BreakTokens(_, _, _)
BreakTokens(s, i, max_len) ==
    IF i > Len(s) THEN <<>>
    ELSE LET n == NonSpaceRun(s, i) IN
         IF n >= max_len
         THEN chunker(SubSeq(s, i, i + n - 1), max_len) \o BreakTokens(s, i + n, max_len)
         ELSE IF n > 0
         THEN SubSeq(s, i, i + n - 1) \o BreakTokens(s, i + n, max_len)
         ELSE SubSeq(s, i, i + SpaceRun(s, i) - 1) \o BreakTokens(s, i + SpaceRun(s, i), max_len)

\* variant: soften_long_tokens without its second substitution (URLs only)
soften_long_tokens_urls_only(s, max_len) == BreakUrls(s, 1, max_len)

soften_long_tokens(s, max_len) == BreakTokens(BreakUrls(s, 1, max_len), 1, max_len)

sanitize_text(text) ==
    soften_long_tokens(normalize_spaces(strip_non_latin1(text)), TokenMax)

----------------------------------------------------------------------------
(* Environment (module configuration)                                      *)

None   == "None"
Unset  == "<unset>"

EnvNames == {"STRIPE_SECRET_KEY", "STRIPE_WEBHOOK_SECRET", "SUPABASE_URL",
             "SUPABASE_SERVICE_ROLE_KEY", "RESEND_API_KEY", "FROM_EMAIL",
             "TABLE_NAME", "BUCKET"}

\* os.getenv(name, default)
getenv(name, default) == IF environ[name] = Unset THEN default ELSE environ[name]

STRIPE_SECRET_KEY         == getenv("STRIPE_SECRET_KEY", "")
STRIPE_WEBHOOK_SECRET     == getenv("STRIPE_WEBHOOK_SECRET", "")
SUPABASE_URL              == getenv("SUPABASE_URL", "")
SUPABASE_SERVICE_ROLE_KEY == getenv("SUPABASE_SERVICE_ROLE_KEY", "")
RESEND_API_KEY            == getenv("RESEND_API_KEY", "")
FROM_EMAIL                == getenv("FROM_EMAIL", "onboarding@resend.dev")
TABLE_NAME                == getenv("TABLE_NAME", "leads")
BUCKET                    == getenv("BUCKET", "casefiles")

\* Python truthiness of an optional string
Truthy(v) == v # None /\ v # ""

\* variant: y or x
OrSecondFirst(x, y) == IF Truthy(y) THEN y ELSE x

\* x or y, for optional strings
Or(x, y) == IF Truthy(x) THEN x ELSE y

\* A text field of a record is a sequence of code points; a field that is
\* None or missing is written <<>>, which the code never tells from "":
\* it reads every such field as (field or default).
NoText == <<>>
TruthyText(v) == v # NoText
OrText(x, y) == IF TruthyText(x) THEN x ELSE y

\* the dict of the sanity check of stripe_webhook
CheckedEnv ==
    [STRIPE_SECRET_KEY         |-> STRIPE_SECRET_KEY,
     STRIPE_WEBHOOK_SECRET     |-> STRIPE_WEBHOOK_SECRET,
     SUPABASE_URL              |-> SUPABASE_URL,
     SUPABASE_SERVICE_ROLE_KEY |-> SUPABASE_SERVICE_ROLE_KEY,
     RESEND_API_KEY            |-> RESEND_API_KEY]

\* missing = [k for k, v in {...}.items() if not v]
missing == {k \in DOMAIN CheckedEnv : ~Truthy(CheckedEnv[k])}

----------------------------------------------------------------------------
(* Requests, records and responses                                         *)

\* the number of requests the process serves
NumReqs == 2
Reqs == 1..NumReqs

\* the last second of the clock
MaxClock == 1

\* how many environment variables may differ from a full configuration
MaxBadEnv == 1

EmailA == "a@example.com"
EmailB == "b@example.com"

CHECKOUT_COMPLETED == "checkout.session.completed"

\* what a request carries: whether its signature verifies against the payload,
\* the event type, and the two email fields of the session
Requests ==
    [sigOk : BOOLEAN,
     type : {CHECKOUT_COMPLETED, "invoice.paid"},
     details_email : {None, "", EmailA},
     customer_email : {None, "", EmailB}]

TextK1   == <<75, 49>>
TextH1B  == <<72, 49, 66>>
TextAnn  == <<65, 110, 110>>
TextBody == <<LETTER_a, SPACE, LETTER_a>>
TextRule == Rep(HYPHEN, RunMin) \o <<LF, LETTER_a>>
Checklist == <<67, 104, 101, 99, 107, 108, 105, 115, 116>>
There     == <<116, 104, 101, 114, 101>>
Visa      == <<118, 105, 115, 97>>

\* the rows the table may hold
LeadRows ==
    { [email |-> EmailA, created_at |-> 1, checklist_text |-> TextBody,
       petitioner_name |-> TextAnn, visa_type |-> TextK1],
      [email |-> EmailA, created_at |-> 2, checklist_text |-> TextRule,
       petitioner_name |-> NoText, visa_type |-> TextH1B],
      [email |-> EmailB, created_at |-> 1, checklist_text |-> NoText,
       petitioner_name |-> TextAnn, visa_type |-> NoText] }

\* variant: the same query with order("created_at", desc=False)
SelectOldest(email) ==
    LET rows == {l \in leads : l.email = email} IN
    IF rows = {} THEN <<>>
    ELSE <<CHOOSE l \in rows : \A m \in rows : l.created_at <= m.created_at>>

\* q.data of supabase.table(TABLE_NAME).select("*").eq("email", email)
\*   .order("created_at", desc=True).limit(1).execute()
SelectLatest(email) ==
    LET rows == {l \in leads : l.email = email} IN
    IF rows = {} THEN <<>>
    ELSE <<CHOOSE l \in rows : \A m \in rows : m.created_at <= l.created_at>>

TmpNames == {"tmp1.pdf", "tmp2.pdf"}

\* the responses of POST /webhook
ResponseMissingEnv == [status |-> 200, body |-> "missing_env"]

\* variant: a failed verification acknowledged with 200
ResponseInvalidSigOk == [status |-> 200, body |-> "invalid_signature"]

\* return f"Invalid signature: {e}", 400
ResponseInvalidSig == [status |-> 400, body |-> "invalid_signature"]

ResponseIgnored == [status |-> 200, body |-> "ignored"]
ResponseNoEmail == [status |-> 200, body |-> "no_email"]
ResponseNoLead  == [status |-> 200, body |-> "no_matching_lead"]
ResponseOk      == [status |-> 200, body |-> "ok"]

\* variant: what the client gets when an exception leaves the handler
ResponseErrorUncaught == [status |-> 500, body |-> "error"]

\* except Exception as e: return jsonify({"error": str(e)}), 200
ResponseError == [status |-> 200, body |-> "error"]

\* the statuses the mail transport answers with
MailStatuses == {200, 202, 422, 500}

NoResponse == [status |-> 0, body |-> "none"]

\* a request slot before its request arrives; locals not assigned yet hold None
\* (strings), NoText (texts), 0 (numbers) or NoResponse
Idle ==
    [pc |-> "idle", request |-> None, email |-> None, lead |-> None, text |-> NoText,
     petitioner |-> NoText, visa_type |-> NoText, tmp |-> None, pdf_path |-> None,
     object_name |-> None, signed_url |-> NoText, status |-> 0,
     pending |-> NoResponse, response |-> NoResponse, calls |-> <<>>]

InitApp ==
    /\ environ \in {e \in [EnvNames -> {Unset, "", "v"}] :
                      Cardinality({k \in EnvNames : e[k] # "v"}) <= MaxBadEnv}
    /\ leads \in SUBSET LeadRows
    /\ files = <<>>
    /\ bucket = <<>>
    /\ outbox = {}
    /\ clock = 0
    /\ ex = [r \in Reqs |-> Idle]

----------------------------------------------------------------------------
(* stripe_webhook, one action per step of the handler                      *)

\* variant: the try block with notify ahead of publish
TryBlockNotifyFirst ==
    <<"email", "lookup", "generate_pdf", "send_resend_email", "upload_to_supabase", "return_ok">>

\* the statements of the try block, in program order
TryBlock ==
    <<"email", "lookup", "generate_pdf", "upload_to_supabase", "send_resend_email", "return_ok">>

\* the statement that follows stmt when stmt completes normally
After(stmt) ==
    LET i == CHOOSE k \in 1..Len(TryBlock) : TryBlock[k] = stmt IN TryBlock[i + 1]

\* the log of the calls a request made and of how each ended
Called(r, what) == Append(ex[r].calls, what)

\* variant: the statement that raised is run again
RaiseRetry(r) == ex[r]

\* an exception raised inside the try block: the except clause sets the
\* response, the finally clause runs next
Raise(r) ==
    [ex[r] EXCEPT !.pc = "finally", !.pending = ResponseError]

\* a request arrives at POST /webhook
Receive(r) ==
    /\ ex[r].pc = "idle"
    /\ \E q \in Requests :
         ex' = [ex EXCEPT ![r] = [@ EXCEPT !.pc = "env", !.request = q]]
    /\ UNCHANGED <<environ, leads, files, bucket, outbox, clock, sanVars>>

\* the sanity check of the environment
CheckEnv(r) ==
    /\ ex[r].pc = "env"
    /\ ex' = [ex EXCEPT ![r] =
                IF missing # {}
                THEN [@ EXCEPT !.pc = "done", !.response = ResponseMissingEnv]
                ELSE [@ EXCEPT !.pc = "verify"]]
    /\ UNCHANGED <<environ, leads, files, bucket, outbox, clock, sanVars>>

\* 1) stripe.Webhook.construct_event
VerifySignature(r) ==
    /\ ex[r].pc = "verify"
    /\ ex' = [ex EXCEPT ![r] =
                IF ex[r].request.sigOk
                THEN [@ EXCEPT !.pc = "classify", !.calls = Called(r, "construct_event")]
                ELSE [@ EXCEPT !.pc = "done", !.calls = Called(r, "construct_event"),
                               !.response = ResponseInvalidSig]]
    /\ UNCHANGED <<environ, leads, files, bucket, outbox, clock, sanVars>>

\* variant: every event type is processed
RelevantAlways(event_type) == TRUE

\* not (event_type != "checkout.session.completed")
Relevant(event_type) == event_type = CHECKOUT_COMPLETED

\* event_type = event.get("type")
Classify(r) ==
    /\ ex[r].pc = "classify"
    /\ ex' = [ex EXCEPT ![r] =
                IF ~Relevant(ex[r].request.type)
                THEN [@ EXCEPT !.pc = "done", !.response = ResponseIgnored]
                ELSE [@ EXCEPT !.pc = TryBlock[1], !.pdf_path = None]]
    /\ UNCHANGED <<environ, leads, files, bucket, outbox, clock, sanVars>>

\* email = (session.get("customer_details") or {}).get("email") or session.get("customer_email")
ExtractEmail(r) ==
    /\ ex[r].pc = "email"
    /\ LET email == Or(ex[r].request.details_email, ex[r].request.customer_email) IN
       ex' = [ex EXCEPT ![r] =
                IF ~Truthy(email)
                THEN [@ EXCEPT !.pc = "finally", !.email = email, !.pending = ResponseNoEmail]
                ELSE [@ EXCEPT !.pc = After("email"), !.email = email]]
    /\ UNCHANGED <<environ, leads, files, bucket, outbox, clock, sanVars>>

\* variant: found = True, whatever the query returned
FoundAlways(data) == TRUE

\* found = bool(q.data)
Found(data) == data # <<>>

\* 2) fetch the most recent matching lead; the query may raise
Lookup(r) ==
    /\ ex[r].pc = "lookup"
    /\ \/ ex' = [ex EXCEPT ![r] = [Raise(r) EXCEPT !.calls = Called(r, "lookup") \o <<"lookup/raise">>]]
       \/ LET data == SelectLatest(ex[r].email) IN
          ex' = [ex EXCEPT ![r] =
                   IF ~Found(data)
                   THEN [@ EXCEPT !.pc = "finally", !.pending = ResponseNoLead,
                                  !.calls = Called(r, "lookup") \o <<"lookup/return">>]
                   ELSE IF data = <<>>     \* q.data[0] raises IndexError
                   THEN [Raise(r) EXCEPT !.calls = Called(r, "lookup") \o <<"lookup/return">>]
                   ELSE [@ EXCEPT !.pc = After("lookup"),
                                  !.calls = Called(r, "lookup") \o <<"lookup/return">>,
                                  !.lead = data[1],
                                  !.text = OrText(data[1].checklist_text, <<>>),
                                  !.petitioner = OrText(data[1].petitioner_name, There),
                                  !.visa_type = OrText(data[1].visa_type, Checklist)]]
    /\ UNCHANGED <<environ, leads, files, bucket, outbox, clock, sanVars>>

\* str.splitlines on sanitized text: the line boundaries left are \n, \r, \r\n
\* and \x85
IsLineBreak(c) == c \in {LF, CR, NEL}

RECURSIVE splitlines(_, _)
splitlines(s, i) ==
    IF i > Len(s) THEN <<>>
    ELSE LET e == CHOOSE j \in i..(Len(s) + 1) :
                     /\ (j > Len(s) \/ IsLineBreak(s[j]))
                     /\ \A k \in i..(j - 1) : ~IsLineBreak(s[k])
             skip == IF e < Len(s) /\ s[e] = CR /\ s[e + 1] = LF THEN 2 ELSE 1
         IN  <<SubSeq(s, i, e - 1)>> \o splitlines(s, e + skip)

\* the lines generate_pdf writes into the document
Document(text) ==
    LET raw == splitlines(sanitize_text(text), 1) IN
    [k \in 1..Len(raw) |-> sanitize_text(raw[k])]

FreeNames == TmpNames \ DOMAIN files

\* 3) generate_pdf up to tmp = tempfile.NamedTemporaryFile(delete=False, suffix=".pdf"):
\* a new, empty file under a name no file has, or an OSError
CreateTmp(r) ==
    /\ ex[r].pc = "generate_pdf"
    /\ \/ /\ ex' = [ex EXCEPT ![r] =
                      [Raise(r) EXCEPT !.calls = Called(r, "generate_pdf") \o <<"generate_pdf/raise">>]]
          /\ UNCHANGED files
       \/ \E n \in FreeNames :
             /\ files' = files @@ (n :> [owner |-> r, data |-> <<>>])
             /\ ex' = [ex EXCEPT ![r] =
                         [@ EXCEPT !.pc = "pdf.output", !.tmp = n,
                                   !.calls = Called(r, "generate_pdf")]]
    /\ UNCHANGED <<environ, leads, bucket, outbox, clock, sanVars>>

\* pdf.output(tmp.name); return tmp.name -- or an OSError while writing
WriteOutput(r) ==
    /\ ex[r].pc = "pdf.output"
    /\ \/ /\ ex' = [ex EXCEPT ![r] = [Raise(r) EXCEPT !.calls = Called(r, "generate_pdf/raise")]]
          /\ UNCHANGED files
       \/ /\ files' = [files EXCEPT ![ex[r].tmp] = [owner |-> r, data |-> Document(ex[r].text)]]
          /\ ex' = [ex EXCEPT ![r] =
                      [@ EXCEPT !.pc = After("generate_pdf"), !.pdf_path = ex[r].tmp,
                                !.calls = Called(r, "generate_pdf/return")]]
    /\ UNCHANGED <<environ, leads, bucket, outbox, clock, sanVars>>

\* object_name = f"{sanitize_text(visa_type or 'Checklist')}_{ts}.pdf"
ObjectName(visa_type, ts) == <<sanitize_text(OrText(visa_type, Checklist)), ts>>

\* 4) upload_to_supabase up to the upload. open(local_path) raises when the
\* file is gone. The storage call stores the data under a name the bucket does
\* not hold yet, or raises; a storage client that reports an error in its return
\* value returns normally with nothing stored.
Upload(r) ==
    /\ ex[r].pc = "upload_to_supabase"
    /\ LET object_name == ObjectName(ex[r].visa_type, clock)
           path == ex[r].pdf_path
           log == Called(r, "upload_to_supabase")
       IN
       \/ /\ ex' = [ex EXCEPT ![r] =
                      [Raise(r) EXCEPT !.object_name = object_name,
                                       !.calls = log \o <<"upload_to_supabase/raise">>]]
          /\ UNCHANGED bucket
       \/ /\ path # None
          /\ path \in DOMAIN files
          /\ \/ /\ object_name \notin DOMAIN bucket
                /\ bucket' = bucket @@ (object_name :> files[path].data)
             \/ UNCHANGED bucket
          /\ ex' = [ex EXCEPT ![r] =
                      [@ EXCEPT !.pc = "create_signed_url", !.object_name = object_name,
                                !.calls = log \o <<"upload">>]]
    /\ UNCHANGED <<environ, leads, files, outbox, clock, sanVars>>

SignedUrlOf(object_name) == <<"signedURL", object_name>>

\* signed = create_signed_url(object_name, 3600); return signed.get("signedURL", "")
SignUrl(r) ==
    /\ ex[r].pc = "create_signed_url"
    /\ LET log == Called(r, "create_signed_url") IN
       \/ ex' = [ex EXCEPT ![r] = [Raise(r) EXCEPT !.calls = log \o <<"upload_to_supabase/raise">>]]
       \/ \E url \in {SignedUrlOf(ex[r].object_name), NoText} :
             ex' = [ex EXCEPT ![r] =
                      [@ EXCEPT !.pc = After("upload_to_supabase"), !.signed_url = url,
                                !.calls = log \o <<"upload_to_supabase/return">>]]
    /\ UNCHANGED <<environ, leads, files, bucket, outbox, clock, sanVars>>

\* a 2xx status
Is2xx(status) == status \in 200..299

\* 5) status, body = send_resend_email(email, petitioner, visa_type, signed_url):
\* requests.post raises (timeout, connection) or returns the transport's status;
\* the transport has accepted the email when the status is 2xx
SendEmail(r) ==
    /\ ex[r].pc = "send_resend_email"
    /\ LET log == Called(r, "send_resend_email")
           mail == [to |-> ex[r].email, petitioner |-> sanitize_text(OrText(ex[r].petitioner, There)),
                    visa_type |-> sanitize_text(OrText(ex[r].visa_type, Visa)),
                    signed_url |-> ex[r].signed_url, sender |-> r]
       IN
       \/ /\ ex' = [ex EXCEPT ![r] = [Raise(r) EXCEPT !.calls = log \o <<"send_resend_email/raise">>]]
          /\ UNCHANGED outbox
       \/ \E status \in MailStatuses :
             /\ outbox' = IF Is2xx(status) THEN outbox \cup {mail} ELSE outbox
             /\ ex' = [ex EXCEPT ![r] =
                         [@ EXCEPT !.pc = After("send_resend_email"), !.status = status,
                                   !.calls = log \o <<"send_resend_email/return">>]]
    /\ UNCHANGED <<environ, leads, files, bucket, clock, sanVars>>

\* return jsonify({"ok": True}), 200
ReturnOk(r) ==
    /\ ex[r].pc = "return_ok"
    /\ ex' = [ex EXCEPT ![r] = [@ EXCEPT !.pc = "finally", !.pending = ResponseOk]]
    /\ UNCHANGED <<environ, leads, files, bucket, outbox, clock, sanVars>>

\* variant: the file is left in place
UnlinkSkipped(path) == files

\* variant: the temporary directory is emptied
UnlinkAll(path) == [n \in {} |-> files[n]]

\* os.unlink(path) leaves the directory without the file
Unlink(path) == [n \in DOMAIN files \ {path} |-> files[n]]

\* finally: if pdf_path: try: os.unlink(pdf_path) except Exception: pass
Finally(r) ==
    /\ ex[r].pc = "finally"
    /\ IF ex[r].pdf_path # None
       THEN /\ files' = Unlink(ex[r].pdf_path)
            /\ ex' = [ex EXCEPT ![r] = [@ EXCEPT !.pc = "respond", !.calls = Called(r, "unlink")]]
       ELSE /\ UNCHANGED files
            /\ ex' = [ex EXCEPT ![r] = [@ EXCEPT !.pc = "respond"]]
    /\ UNCHANGED <<environ, leads, bucket, outbox, clock, sanVars>>

\* the response leaves the handler
Respond(r) ==
    /\ ex[r].pc = "respond"
    /\ ex' = [ex EXCEPT ![r] = [@ EXCEPT !.pc = "done", !.response = ex[r].pending]]
    /\ UNCHANGED <<environ, leads, files, bucket, outbox, clock, sanVars>>

\* a second passes
Tick ==
    /\ clock < MaxClock
    /\ clock' = clock + 1
    /\ UNCHANGED <<environ, leads, files, bucket, outbox, ex, sanVars>>

InitSanIdle ==
    /\ sanText = <<>>
    /\ sanOut = <<>>
    /\ sanOut2 = <<>>
    /\ sanStage = "idle"
    /\ sanNorm = <<>>
    /\ pdfTodo = <<>>
    /\ pdfLine = <<>>
    /\ pdfCells = <<>>
    /\ pdfI = 0

Init == InitApp /\ InitSanIdle

\* the requests Spec follows: one handler call from arrival to response
Serial == {1}

Next ==
    \/ \E r \in Serial : Receive(r)
    \/ \E r \in Serial : CheckEnv(r)
    \/ \E r \in Serial : VerifySignature(r)
    \/ \E r \in Serial : Classify(r)
    \/ \E r \in Serial : ExtractEmail(r)
    \/ \E r \in Serial : Lookup(r)
    \/ \E r \in Serial : CreateTmp(r)
    \/ \E r \in Serial : WriteOutput(r)
    \/ \E r \in Serial : Upload(r)
    \/ \E r \in Serial : SignUrl(r)
    \/ \E r \in Serial : SendEmail(r)
    \/ \E r \in Serial : ReturnOk(r)
    \/ \E r \in Serial : Finally(r)
    \/ \E r \in Serial : Respond(r)
    \/ Tick

Spec == Init /\ [][Next]_vars

----------------------------------------------------------------------------
(* Concurrent executions: two signed checkout.session.completed events     *)
(* handled at once, each by its own call of stripe_webhook                 *)

Concurrent == {1, 2}

ConcRequests ==
    {q \in Requests : /\ q.sigOk
                      /\ q.type = CHECKOUT_COMPLETED
                      /\ <<q.details_email, q.customer_email>> \in {<<EmailA, None>>, <<None, EmailB>>}}

InitConc ==
    /\ environ = [k \in EnvNames |-> "v"]
    /\ leads = LeadRows
    /\ files = <<>>
    /\ bucket = <<>>
    /\ outbox = {}
    /\ clock = 0
    /\ ex \in [Reqs -> {Idle} \cup {[Idle EXCEPT !.pc = "env", !.request = q] : q \in ConcRequests}]
    /\ \A r \in Reqs : r \in Concurrent <=> ex[r] # Idle
    /\ ex[1].request.details_email = EmailA    \* the other event: either buyer
    /\ sanText = <<>>
    /\ sanOut = <<>>
    /\ sanOut2 = <<>>
    /\ sanStage = "idle"
    /\ sanNorm = <<>>
    /\ pdfTodo = <<>>
    /\ pdfLine = <<>>
    /\ pdfCells = <<>>
    /\ pdfI = 0

NextConc ==
    \/ \E r \in Concurrent : CheckEnv(r)
    \/ \E r \in Concurrent : VerifySignature(r)
    \/ \E r \in Concurrent : Classify(r)
    \/ \E r \in Concurrent : ExtractEmail(r)
    \/ \E r \in Concurrent : Lookup(r)
    \/ \E r \in Concurrent : CreateTmp(r)
    \/ \E r \in Concurrent : WriteOutput(r)
    \/ \E r \in Concurrent : Upload(r)
    \/ \E r \in Concurrent : SignUrl(r)
    \/ \E r \in Concurrent : SendEmail(r)
    \/ \E r \in Concurrent : ReturnOk(r)
    \/ \E r \in Concurrent : Finally(r)
    \/ \E r \in Concurrent : Respond(r)
    \/ Tick

SpecConc == InitConc /\ [][NextConc]_vars

----------------------------------------------------------------------------
(* Properties of stripe_webhook                                            *)

Has(r, what) == \E i \in DOMAIN ex[r].calls : ex[r].calls[i] = what

Count(r, what) == Cardinality({i \in DOMAIN ex[r].calls : ex[r].calls[i] = what})

Done(r) == ex[r].pc = "done"

\* construct_event was called and returned the event
Verified(r) == Has(r, "construct_event") /\ ex[r].request.sigOk

\* construct_event was called and raised
SigFailed(r) == Has(r, "construct_event") /\ ~ex[r].request.sigOk

\* some file in the temporary directory was created by request r
OwnsFile(r) == \E n \in DOMAIN files : files[n].owner = r

\* the log entries of record lookup, render, publish and notify
Downstream ==
    {"lookup", "generate_pdf", "upload_to_supabase", "upload", "create_signed_url",
     "send_resend_email"}

NoDownstream(r, entries) == \A i \in DOMAIN ex[r].calls : ex[r].calls[i] \notin entries

Raises == {"lookup/raise", "generate_pdf/raise", "upload_to_supabase/raise",
           "send_resend_email/raise"}

\* the responses of the business outcomes
BusinessResponses ==
    {ResponseIgnored, ResponseNoEmail, ResponseNoLead, ResponseOk, ResponseError}

\* C1: every execution whose signature verification succeeded answers with
\* status 200, whatever happened afterwards; no exception raised after
\* authentication leaves stripe_webhook uncaught (that would answer 500).
C1_AuthenticatedAnswers200 ==
    \A r \in Reqs : Done(r) /\ Verified(r) => ex[r].response.status = 200

\* C1 witness: an authenticated execution in which notify raised has answered.
C1_Witness ==
    \E r \in Reqs : Done(r) /\ Verified(r) /\ Has(r, "send_resend_email/raise")

\* C2: when signature verification fails the response has status 400, which
\* no business outcome has, and the execution makes no lookup, render, publish
\* or notify call.
C2_BadSignatureRejected ==
    \A r \in Reqs :
        SigFailed(r) =>
            /\ Done(r)
            /\ ex[r].response = ResponseInvalidSig
            /\ ex[r].response.status = 400
            /\ \A b \in BusinessResponses : b.status # ex[r].response.status
            /\ NoDownstream(r, Downstream)

\* C2 witness: an execution whose signature did not verify has answered.
C2_Witness == \E r \in Reqs : SigFailed(r) /\ Done(r)

\* C3: publish is started only after generate_pdf has returned, notify only
\* after publish has returned, and after a step has raised no later step runs
\* (only the unlink of the finally clause).
C3_RenderPublishNotifyInOrder ==
    \A r \in Reqs :
        LET log == ex[r].calls IN
        \A i \in DOMAIN log :
            /\ log[i] = "upload_to_supabase" =>
                   \E j \in 1..(i - 1) : log[j] = "generate_pdf/return"
            /\ log[i] = "send_resend_email" =>
                   \E j \in 1..(i - 1) : log[j] = "upload_to_supabase/return"
            /\ log[i] \in Raises =>
                   \A j \in (i + 1)..Len(log) : log[j] = "unlink"

\* C3 witness: an execution has rendered, published and notified.
C3_Witness ==
    \E r \in Reqs :
        /\ Done(r)
        /\ Has(r, "generate_pdf/return")
        /\ Has(r, "upload_to_supabase/return")
        /\ Has(r, "send_resend_email/return")

C5_FailedRenderCleansUp ==
    \A r \in Reqs :
        Done(r) /\ ex[r].tmp # None /\ ~Has(r, "generate_pdf/return") =>
            /\ ex[r].response.status = 200
            /\ ~OwnsFile(r)

\* the values the configuration requires: signing secret, record-store
\* endpoint and credential, table name, bucket name, notification API key,
\* sender address
RequiredConfig ==
    {STRIPE_WEBHOOK_SECRET, SUPABASE_URL, SUPABASE_SERVICE_ROLE_KEY, TABLE_NAME, BUCKET,
     RESEND_API_KEY, FROM_EMAIL}

\* C8: if any required configuration value is absent or empty, the execution
\* ends in the missing_env outcome without attempting signature verification
\* and without any lookup, render, publish or notify call.
C8_MissingConfigShortCircuits ==
    \A r \in Reqs :
        (ex[r].pc \notin {"idle", "env"} /\ \E v \in RequiredConfig : ~Truthy(v)) =>
            /\ Done(r)
            /\ ex[r].response = ResponseMissingEnv
            /\ ex[r].calls = <<>>

\* C9: the execution reports the success outcome only when the mail transport
\* returned a 2xx status; a send that returned any other status ends in the
\* Error outcome.
C9_OkOnlyOn2xx ==
    \A r \in Reqs :
        Done(r) /\ Has(r, "send_resend_email/return") =>
            IF Is2xx(ex[r].status)
            THEN ex[r].response = ResponseOk
            ELSE ex[r].response = ResponseError

\* C10: for an authenticated checkout.session.completed event with an email,
\* when the lookup returns no rows the outcome is no_matching_lead with status
\* 200, no render, publish or notify call is made and no temporary file is
\* created.
C10_NoRowsIsUnmatched ==
    \A r \in Reqs :
        Has(r, "lookup/return") /\ SelectLatest(ex[r].email) = <<>> =>
            /\ ex[r].pending = ResponseNoLead
            /\ ex[r].pending.status = 200
            /\ Done(r) => ex[r].response = ResponseNoLead
            /\ NoDownstream(r, Downstream \ {"lookup"})
            /\ ex[r].tmp = None
            /\ ~OwnsFile(r)

\* C10 witness: a lookup returned no rows and the execution has answered.
C10_Witness ==
    \E r \in Reqs :
        Done(r) /\ Has(r, "lookup/return") /\ SelectLatest(ex[r].email) = <<>>

\* the handler has read the email of an authenticated checkout.session.completed event
EmailRead(r) ==
    /\ Verified(r)
    /\ ex[r].request.type = "checkout.session.completed"
    /\ ex[r].pc \notin {"classify", "email"}

\* C11: for an authenticated checkout.session.completed event the outcome is
\* no_email (status 200, no lookup, render, publish or notify call) exactly
\* when customer_details.email and customer_email are both absent or empty;
\* otherwise the lookup key is customer_details.email when it is non-empty and
\* customer_email only when the first is absent or empty.
C11_EmailSelection ==
    \A r \in Reqs :
        EmailRead(r) =>
            LET first  == ex[r].request.details_email
                second == ex[r].request.customer_email
            IN
            IF first \in {None, ""} /\ second \in {None, ""}
            THEN /\ ex[r].pending = ResponseNoEmail
                 /\ ex[r].pending.status = 200
                 /\ Done(r) => ex[r].response = ResponseNoEmail
                 /\ NoDownstream(r, Downstream)
            ELSE /\ ex[r].pending # ResponseNoEmail
                 /\ ex[r].email = (IF first \notin {None, ""} THEN first ELSE second)

\* C11 witness: both fields are set, and the lookup has been made.
C11_Witness ==
    \E r \in Reqs :
        /\ EmailRead(r)
        /\ ex[r].request.details_email = EmailA
        /\ ex[r].request.customer_email = EmailB
        /\ Has(r, "lookup")

\* C12: an authenticated event of any type other than
\* checkout.session.completed is answered with the ignored outcome, status
\* 200, and makes no lookup, render, publish or notify call.
C12_OtherTypesIgnored ==
    \A r \in Reqs :
        (/\ Verified(r)
         /\ ex[r].request.type # "checkout.session.completed"
         /\ ex[r].pc # "classify") =>
            /\ Done(r)
            /\ ex[r].response = ResponseIgnored
            /\ ex[r].response.status = 200
            /\ NoDownstream(r, Downstream)

\* C12 witness: an authenticated invoice.paid event has been answered.
C12_Witness ==
    \E r \in Reqs : Done(r) /\ Verified(r) /\ ex[r].request.type = "invoice.paid"

\* the stored rows with the email of request r
Matching(r) == {l \in leads : l.email = ex[r].email}

\* C13: when several rows match the buyer email, the row whose body,
\* petitioner name and category are rendered, published and notified is the
\* one created last among them, and all three come from that row.
C13_LatestRowIsUsed ==
    \A r \in Reqs :
        Has(r, "generate_pdf") =>
            /\ ex[r].lead \in Matching(r)
            /\ \A l \in Matching(r) : l.created_at <= ex[r].lead.created_at
            /\ ex[r].text = OrText(ex[r].lead.checklist_text, NoText)
            /\ ex[r].petitioner = OrText(ex[r].lead.petitioner_name, There)
            /\ ex[r].visa_type = OrText(ex[r].lead.visa_type, Checklist)
            /\ \A n \in DOMAIN files :
                   (files[n].owner = r /\ files[n].data # <<>>) =>
                       files[n].data = Document(OrText(ex[r].lead.checklist_text, NoText))
            /\ Has(r, "upload") =>
                   ex[r].object_name[1] = sanitize_text(OrText(ex[r].lead.visa_type, Checklist))
            /\ \A m \in outbox :
                   m.sender = r =>
                       m.petitioner = sanitize_text(OrText(ex[r].lead.petitioner_name, There))

\* C13 witness: two rows match the email and the execution has rendered,
\* published and notified.
C13_Witness ==
    \E r \in Reqs :
        /\ Done(r)
        /\ Cardinality(Matching(r)) = 2
        /\ ex[r].response = ResponseOk
        /\ \E m \in outbox : m.sender = r

\* the calls an execution makes to its collaborators
Steps == {"lookup", "generate_pdf", "upload_to_supabase", "upload", "create_signed_url",
          "send_resend_email"}

\* C15: within one execution record lookup, render, publish (upload and URL
\* signing) and notify are each called at most once; a step that failed is not
\* run again.
C15_EachStepAtMostOnce ==
    \A r \in Reqs : \A step \in Steps : Count(r, step) <= 1

\* C15 witness: every step has been called, and notify raised.
C15_Witness ==
    \E r \in Reqs :
        /\ Done(r)
        /\ \A step \in Steps : Count(r, step) = 1
        /\ Has(r, "send_resend_email/raise")

\* C18: whenever send_resend_email is called, its signed_url is the non-empty
\* URL that URL signing returned for the object this execution uploaded; when
\* the signing response carries no URL, no email is sent.
C18_EmailCarriesSignedUrl ==
    \A r \in Reqs :
        Has(r, "send_resend_email") =>
            /\ ex[r].signed_url # NoText
            /\ ex[r].signed_url = SignedUrlOf(ex[r].object_name)

\* C16: under any interleaving of two concurrent executions, also when both
\* carry the same category and publish within the same UTC second, the two
\* publish under distinct object names, and the signed URL each one emails
\* resolves to the document that same execution rendered.
C16_DistinctObjectNames ==
    /\ \A r1, r2 \in Reqs :
           (r1 # r2 /\ Has(r1, "upload_to_supabase") /\ Has(r2, "upload_to_supabase")) =>
               ex[r1].object_name # ex[r2].object_name
    /\ \A m \in outbox :
           (m.signed_url # NoText /\ m.signed_url[2] \in DOMAIN bucket) =>
               bucket[m.signed_url[2]] = Document(ex[m.sender].text)

\* the document an execution rendered is in place, whole, while the execution
\* is about to read it for the upload
DocumentInPlace ==
    \A r \in Reqs :
        ex[r].pc = "upload_to_supabase" =>
            /\ ex[r].pdf_path \in DOMAIN files
            /\ files[ex[r].pdf_path].owner = r
            /\ files[ex[r].pdf_path].data = Document(ex[r].text)

\* a step removes a file only as the finally clause of the execution that
\* created it, and no file changes its creator
OnlyCreatorUnlinks ==
    \A n \in DOMAIN files :
        IF n \in DOMAIN files'
        THEN files'[n].owner = files[n].owner
        ELSE \E r \in Reqs :
                 /\ files[n].owner = r
                 /\ ex[r].pdf_path = n
                 /\ ex[r].pc = "finally"
                 /\ ex'[r].pc = "respond"

\* C17: under any interleaving of concurrent executions, an execution unlinks
\* only the temporary document it created itself, and no execution's document
\* is removed by another execution or before its creator has finished reading
\* it for the upload.
C17_OnlyOwnDocumentUnlinked == [](DocumentInPlace) /\ [][OnlyCreatorUnlinks]_vars

\* C17 witness: one execution has unlinked its document while another holds
\* its own and is about to read it for the upload.
C17_Witness ==
    \E r1, r2 \in Reqs :
        /\ r1 # r2
        /\ Has(r1, "unlink")
        /\ ex[r2].pc = "upload_to_supabase"
        /\ OwnsFile(r2)

----------------------------------------------------------------------------
(* Sanitizer harness: inputs built from at most MaxSegs segments           *)

MaxSegs == 2

HyphenRuns == {Rep(HYPHEN, n) : n \in {1, RunMin - 1, RunMin, RunMin + 1, 2 * RunMin}}
UnderRuns  == {Rep(UNDERSCORE, n) : n \in {1, RunMin}}
Words      == {Rep(LETTER_a, n) : n \in {1, TokenMax - 1, TokenMax, TokenMax + 1, 2 * TokenMax + 1}}
Urls       == {HTTP \o Rep(LETTER_a, 1), HTTP \o Rep(LETTER_a, TokenMax - Len(HTTP) + 1),
               HTTPS \o Rep(LETTER_a, TokenMax)}
Singles    == {<<c>> : c \in {SPACE, LF, TAB, NBSP, ENDASH, SOH, DEL, NEL}}

Segments == HyphenRuns \cup UnderRuns \cup Words \cup Urls \cup Singles

RECURSIVE TextsOf(_)
TextsOf(k) ==
    IF k = 0 THEN {<<>>}
    ELSE LET shorter == TextsOf(k - 1) IN
         shorter \cup {t \o g : t \in shorter, g \in Segments}

Texts == TextsOf(MaxSegs)

InitSan ==
    /\ environ = [k \in EnvNames |-> "v"]
    /\ leads = {}
    /\ files = <<>>
    /\ bucket = <<>>
    /\ outbox = {}
    /\ clock = 0
    /\ ex = [r \in Reqs |-> Idle]
    /\ sanText \in Texts
    /\ sanOut = <<>>
    /\ sanOut2 = <<>>
    /\ sanStage = "raw"
    /\ sanNorm = <<>>
    /\ pdfTodo = <<>>
    /\ pdfLine = <<>>
    /\ pdfCells = <<>>
    /\ pdfI = 0

\* t = sanitize_text(text)
Sanitize ==
    /\ sanStage = "raw"
    /\ sanOut' = sanitize_text(sanText)
    /\ sanStage' = "once"
    /\ UNCHANGED <<sanText, sanOut2, sanNorm, pdfVars, appVars>>

\* line = sanitize_text(raw_line): the second application generate_pdf makes
SanitizeAgain ==
    /\ sanStage = "once"
    /\ sanOut2' = sanitize_text(sanOut)
    /\ sanStage' = "twice"
    /\ UNCHANGED <<sanText, sanOut, sanNorm, pdfVars, appVars>>

\* s = normalize_spaces(s), on its own
Normalize ==
    /\ sanStage = "raw"
    /\ sanNorm' = normalize_spaces(sanText)
    /\ sanStage' = "normalized"
    /\ UNCHANGED <<sanText, sanOut, sanOut2, pdfVars, appVars>>

NextSan == Sanitize \/ SanitizeAgain \/ Normalize

SpecSan == InitSan /\ [][NextSan]_vars

----------------------------------------------------------------------------
(* Render harness: the line loop of generate_pdf and safe_multicell, over  *)
(* documents of at most MaxLines lines                                     *)

MaxLines == 2

chunk == 60

\* a line of n characters in words of TokenMax - 1 letters
Filler(n) == [k \in 1..n |-> IF k % TokenMax = 0 THEN SPACE ELSE LETTER_a]

PdfLines == {<<>>, Rep(LETTER_a, 1), Rep(LETTER_a, 2 * TokenMax + 1), Rep(HYPHEN, 2 * RunMin),
             Filler(chunk), Filler(chunk + 1), Filler(2 * chunk + 1)}

RECURSIVE DocsOf(_)
DocsOf(k) ==
    IF k = 0 THEN {<<>>}
    ELSE LET shorter == DocsOf(k - 1) IN
         shorter \cup {t \o l \o <<LF>> : t \in shorter, l \in PdfLines}

InitPdf ==
    /\ environ = [k \in EnvNames |-> "v"]
    /\ leads = {}
    /\ files = <<>>
    /\ bucket = <<>>
    /\ outbox = {}
    /\ clock = 0
    /\ ex = [r \in Reqs |-> Idle]
    /\ sanText \in DocsOf(MaxLines)
    /\ sanOut = <<>>
    /\ sanOut2 = <<>>
    /\ sanStage = "raw"
    /\ sanNorm = <<>>
    /\ pdfTodo = <<>>
    /\ pdfLine = <<>>
    /\ pdfCells = <<>>
    /\ pdfI = 0

\* variant: piece = line[i:i+chunk-1]
PieceShort(line, i) ==
    SubSeq(line, i + 1, IF i + chunk - 1 < Len(line) THEN i + chunk - 1 ELSE Len(line))

\* piece = line[i:i+chunk]
Piece(line, i) ==
    SubSeq(line, i + 1, IF i + chunk < Len(line) THEN i + chunk ELSE Len(line))

\* safe_text = sanitize_text(text); the loop over safe_text.splitlines() starts
StartRender ==
    /\ sanStage = "raw"
    /\ pdfTodo' = Document(sanText)
    /\ sanStage' = "render"
    /\ UNCHANGED <<sanText, sanOut, sanOut2, sanNorm, pdfLine, pdfCells, pdfI, appVars>>

\* safe_multicell(pdf, line, line_h, avail_w) for the next line: multi_cell
\* either lays the line out or raises, as the library decides
MultiCell ==
    /\ sanStage = "render"
    /\ pdfTodo # <<>>
    /\ pdfLine' = Head(pdfTodo)
    /\ pdfTodo' = Tail(pdfTodo)
    /\ pdfI' = 0
    /\ \/ pdfCells' = <<Head(pdfTodo)>> /\ sanStage' = "render"
       \/ pdfCells' = <<>> /\ sanStage' = "fallback"
    /\ UNCHANGED <<sanText, sanOut, sanOut2, sanNorm, appVars>>

\* one iteration of the fallback loop; cell() does not wrap and does not raise
ChunkStep ==
    /\ sanStage = "fallback"
    /\ pdfI < Len(pdfLine)
    /\ pdfCells' = Append(pdfCells, Piece(pdfLine, pdfI))
    /\ pdfI' = pdfI + chunk
    /\ UNCHANGED <<sanText, sanOut, sanOut2, sanNorm, sanStage, pdfTodo, pdfLine, appVars>>

\* the fallback loop ends and safe_multicell returns
ChunkExit ==
    /\ sanStage = "fallback"
    /\ ~(pdfI < Len(pdfLine))
    /\ sanStage' = "render"
    /\ UNCHANGED <<sanText, sanOut, sanOut2, sanNorm, pdfVars, appVars>>

\* the line loop ends; generate_pdf goes on to write the file
EndRender ==
    /\ sanStage = "render"
    /\ pdfTodo = <<>>
    /\ sanStage' = "rendered"
    /\ UNCHANGED <<sanText, sanOut, sanOut2, sanNorm, pdfVars, appVars>>

NextPdf == StartRender \/ MultiCell \/ ChunkStep \/ ChunkExit \/ EndRender

\* generate_pdf runs in one thread that keeps running
SpecPdf ==
    InitPdf /\ [][NextPdf]_vars /\ WF_vars(MultiCell \/ ChunkStep \/ ChunkExit \/ EndRender)

----------------------------------------------------------------------------
(* Properties of the sanitizer                                             *)

\* position i starts a maximal run of non-whitespace characters of s
TokenStart(s, i) == ~IsSpace(s[i]) /\ (i = 1 \/ IsSpace(s[i - 1]))

\* the longest maximal run of non-whitespace characters of s is at most n long
TokensWithin(s, n) == \A i \in 1..Len(s) : TokenStart(s, i) => NonSpaceRun(s, i) <= n

\* C6: sanitize_text is idempotent: sanitize_text(sanitize_text(t)) = sanitize_text(t)
\* for every input text t.
C6_Idempotent == sanStage = "twice" => sanOut2 = sanOut

\* C7: every maximal run of non-whitespace characters of sanitize_text(t) is at
\* most 40 characters long, whatever the input text t.
C7_TokensAtMost40 == sanStage # "raw" => TokensWithin(sanOut, TokenMax)

\* C7 witness: the input held a URL after a non-URL prefix inside a token
\* longer than 40 characters, and it has been sanitized.
C7_Witness ==
    /\ sanStage = "once"
    /\ \E i \in 1..Len(sanText) :
          /\ TokenStart(sanText, i)
          /\ sanText[i] = LETTER_a
          /\ NonSpaceRun(sanText, i) > TokenMax
          /\ UrlMatch(sanText, i) = 0
          /\ \E j \in (i + 1)..(i + NonSpaceRun(sanText, i) - 1) : UrlMatch(sanText, j) > 0

\* the C0 and C1 control characters, DEL included
IsControl(c) == c \in 0..31 \/ c \in 127..159

\* C14: sanitize_text(t) contains no control character other than newline and
\* carriage return (DEL 0x7F and the range 0x80-0x9F are control characters)
\* and no tab.
C14_NoControlCharacters ==
    sanStage \in {"once", "twice"} =>
        \A i \in 1..Len(sanOut) :
            /\ IsControl(sanOut[i]) => sanOut[i] \in {LF, CR}
            /\ sanOut[i] # TAB

\* s without its spaces
RECURSIVE WithoutSpaces(_)
WithoutSpaces(s) ==
    IF s = <<>> THEN <<>>
    ELSE (IF Head(s) = SPACE THEN <<>> ELSE <<Head(s)>>) \o WithoutSpaces(Tail(s))

\* s is a run of n >= 10 identical '-' or '_' characters
IsPlainRun(s) ==
    /\ Len(s) >= 10
    /\ s[1] \in {45, 95}
    /\ \A i \in 1..Len(s) : s[i] = s[1]

\* C19: for a run of n >= 10 identical '-' or '_' characters normalize_spaces
\* returns groups of at most 10 of that character separated by spaces, and the
\* groups together are exactly the n characters of the input.
C19_RunKeepsItsCharacters ==
    (sanStage = "normalized" /\ IsPlainRun(sanText)) =>
        /\ WithoutSpaces(sanNorm) = sanText
        /\ \A i \in 1..Len(sanNorm) :
               TokenStart(sanNorm, i) => NonSpaceRun(sanNorm, i) <= 10

----------------------------------------------------------------------------
(* Properties of the render loop                                           *)

\* the cells joined in order
RECURSIVE Concat(_)
Concat(cells) == IF cells = <<>> THEN <<>> ELSE Head(cells) \o Concat(Tail(cells))

\* the fallback loop has written the first i characters of the line in cells
\* of 1 to 60 characters
ChunksSoFar ==
    sanStage = "fallback" =>
        /\ \A k \in DOMAIN pdfCells : Len(pdfCells[k]) \in 1..60
        /\ Concat(pdfCells) =
               SubSeq(pdfLine, 1, IF pdfI < Len(pdfLine) THEN pdfI ELSE Len(pdfLine))

\* C20: generate_pdf does not propagate a layout exception: when multi_cell
\* rejects a line, safe_multicell writes the line as successive cells of at
\* most 60 characters whose concatenation is the line, the loop ends, and
\* generate_pdf goes on with the next line until all lines are laid out.
C20_FallbackLaysOutEveryLine ==
    /\ [](ChunksSoFar)
    /\ [](sanStage = "render" => Concat(pdfCells) = pdfLine)
    /\ (sanStage = "fallback") ~> (sanStage = "render")
    /\ (sanStage = "fallback") ~> (sanStage = "rendered")

\* C20 witness: multi_cell rejected a line longer than 60 characters, the
\* fallback has written all of it, and another line is waiting.
C20_Witness ==
    /\ sanStage = "fallback"
    /\ Len(pdfLine) > 60
    /\ ~(pdfI < Len(pdfLine))
    /\ Len(pdfCells) = 3
    /\ pdfTodo # <<>>

====
